---------------------------- MODULE Spec2Model ----------------------------
(***************************************************************************)
(* Model of stringIncrement (task1-test-cases/src/simple-function.ts).     *)
(*                                                                         *)
(* A JavaScript string is modelled as a sequence of one-character strings, *)
(* a JavaScript value as a record [type, chars, val]: "chars" is the text  *)
(* of a string value, "val" the number of a number value and 0/1 for a     *)
(* boolean.  A call either returns a string or throws.                     *)
(***************************************************************************)
EXTENDS Integers, Sequences, FiniteSets, TLC

\* one call of stringIncrement: its argument, the caller's position, the
\* returned string and whether the call threw; for a caller that feeds the
\* output back in, the number of applications since the argument last had
\* the suffix 0000 (-1 while it never had)
VARIABLES input, pc, result, threw, sinceZero

\* a series of calls in one module instance: the log of <<argument, outcome>>
\* pairs, and the lastIndex of the RegExp object the latest call matched with
VARIABLES history, lastIndex

\* concurrent callers: each caller's position, argument and result, and the
\* call frames holding the function's parameter and local constants
VARIABLES cpc, cinput, cresult, frames

\* the clean TODAY() test: the system date, what the page shows for cell A1,
\* the string getCellResult returned, the result of verifyDateFormat and the
\* position of the test
VARIABLES today, dom, cellResult, validation, tpc

\* ConfigLoader: the configuration file, the environment variables, the
\* singleton's config field, the outcome of the latest loadConfig call and
\* the number of calls made
VARIABLES file, env, config, loadOutcome, loads

\* BrowserUtils.retryOperation: its two arguments, the loop counter, the
\* log of the invocations of the operation with their outcomes, the delays
\* slept, lastError, the position in the loop and how the returned promise
\* settled
VARIABLES maxRetries, baseDelay, attempt, invocations, sleeps, lastError,
          rpc, settled

\* handleTooManyRequestsError: the counter, the number of checks of the page
\* body, of reloads, and the position in the loop
VARIABLES refreshAttempts, checks, reloads, rlpc

\* the ConfigLoader class and its callers: the static instance field (0 while
\* it is undefined, else the number of the object), the number of
\* ConfigLoader objects constructed, and what the latest getExcelConfig or
\* getBrowserConfig call returned
VARIABLES instance, objects, section

\* createNewWorkbook: the page (its URL, the workbook rows listed and the
\* creation controls visible), the clicks made, this.workbookName, the index
\* of the selector tried, the position in the method and the error thrown
VARIABLES wbPage, clicks, workbookName, selector, wpc, wbThrown

strVars == <<input, pc, result, threw, sinceZero>>

callsVars == <<history, lastIndex>>

concVars == <<cpc, cinput, cresult, frames>>

e2eVars == <<today, dom, cellResult, validation, tpc>>

cfgVars == <<file, env, config, loadOutcome, loads>>

retryVars ==
    <<maxRetries, baseDelay, attempt, invocations, sleeps, lastError, rpc,
      settled>>

rateVars == <<refreshAttempts, checks, reloads, rlpc>>

cacheVars == <<instance, objects, section>>

wbVars == <<wbPage, clicks, workbookName, selector, wpc, wbThrown>>

vars ==
    <<strVars, callsVars, concVars, e2eVars, cfgVars, retryVars, rateVars,
      cacheVars, wbVars>>

\* the parts of the state a specification does not use stay at these values
StrIdle ==
    /\ input = [type |-> "string", chars |-> <<>>, val |-> 0]
    /\ pc = "ready"
    /\ result = <<>>
    /\ threw = FALSE
    /\ sinceZero = 0 - 1

CallsIdle == history = <<>> /\ lastIndex = 0

ConcIdle == cpc = <<>> /\ cinput = <<>> /\ cresult = <<>> /\ frames = <<>>

E2EIdle ==
    /\ today = <<>>
    /\ dom = <<>>
    /\ cellResult = <<>>
    /\ validation = <<>>
    /\ tpc = "idle"

CfgIdle ==
    /\ file = <<>>
    /\ env = <<>>
    /\ config = <<>>
    /\ loadOutcome = <<>>
    /\ loads = 0

RetryIdle ==
    /\ maxRetries = 0
    /\ baseDelay = 0
    /\ attempt = 0
    /\ invocations = <<>>
    /\ sleeps = <<>>
    /\ lastError = <<>>
    /\ rpc = "idle"
    /\ settled = <<>>

RateIdle ==
    /\ refreshAttempts = 0
    /\ checks = 0
    /\ reloads = 0
    /\ rlpc = "idle"

CacheIdle == instance = 0 /\ objects = 0 /\ section = <<>>

WbIdle ==
    /\ wbPage = <<>>
    /\ clicks = <<>>
    /\ workbookName = ""
    /\ selector = 0
    /\ wpc = "idle"
    /\ wbThrown = ""

\* one call of stringIncrement, or a chain of calls, and nothing else
OnlyStr ==
    /\ CallsIdle /\ ConcIdle /\ E2EIdle /\ CfgIdle /\ RetryIdle /\ RateIdle
    /\ CacheIdle /\ WbIdle

notStr ==
    <<callsVars, concVars, e2eVars, cfgVars, retryVars,
      rateVars, cacheVars, wbVars>>

notStrCalls ==
    <<concVars, e2eVars, cfgVars, retryVars, rateVars,
      cacheVars, wbVars>>

notConc ==
    <<strVars, callsVars, e2eVars, cfgVars, retryVars,
      rateVars, cacheVars, wbVars>>

notE2E ==
    <<strVars, callsVars, concVars, cfgVars, retryVars,
      rateVars, cacheVars, wbVars>>

notCfg ==
    <<strVars, callsVars, concVars, e2eVars, retryVars,
      rateVars, cacheVars, wbVars>>

notRetry ==
    <<strVars, callsVars, concVars, e2eVars, cfgVars,
      rateVars, cacheVars, wbVars>>

\* what the ConfigLoader class and its callers leave alone
notCache ==
    <<strVars, callsVars, concVars, e2eVars, retryVars,
      rateVars, wbVars>>

notWb ==
    <<strVars, callsVars, concVars, e2eVars, cfgVars,
      retryVars, rateVars, cacheVars>>

notRate ==
    <<strVars, callsVars, concVars, e2eVars, cfgVars,
      retryVars, cacheVars, wbVars>>

(***************************************************************************)
(* Bounds of the explored input domain.                                    *)
(***************************************************************************)
MaxLetters == 5
MaxDigits == 5
MaxPad == 2
MaxAny == 4
MaxIterLetters == 1
MaxIterDigits == 3
MaxCalls == 3
NumCallers == 2
MaxLoads == 2
MaxRetryArg == 4
MaxPairLetters == 2
MaxWorkbookRows == 2

LetterChars == {"a", "Z"}
DigitChars == {"0", "1", "9"}
PadChars == {" ", "\n"}
OtherChars == {"-"}

(***************************************************************************)
(* Character classes of the regular expression and of the JS runtime.      *)
(***************************************************************************)
UpperCase ==
    <<"A", "B", "C", "D", "E", "F", "G", "H", "I", "J", "K", "L", "M",
      "N", "O", "P", "Q", "R", "S", "T", "U", "V", "W", "X", "Y", "Z">>

LowerCase ==
    <<"a", "b", "c", "d", "e", "f", "g", "h", "i", "j", "k", "l", "m",
      "n", "o", "p", "q", "r", "s", "t", "u", "v", "w", "x", "y", "z">>

DecimalDigits == <<"0", "1", "2", "3", "4", "5", "6", "7", "8", "9">>

Range(s) == {s[i] : i \in DOMAIN s}

UpperLetters == Range(UpperCase)

LowerLetters == Range(LowerCase)

Letters == UpperLetters \cup LowerLetters

Digits == Range(DecimalDigits)

\* [A-Za-z]
IsLetter(c) == c \in Letters

\* \d (no unicode flag: ASCII digits only)
IsDigit(c) == c \in Digits

DigitValues ==
    [c \in Digits |-> (CHOOSE i \in DOMAIN DecimalDigits : DecimalDigits[i] = c) - 1]

DigitValue(c) == DigitValues[c]

DigitChar(n) == DecimalDigits[n + 1]

(***************************************************************************)
(* JavaScript values.                                                      *)
(***************************************************************************)
Str(s) == [type |-> "string", chars |-> s, val |-> 0]

NonStringInputs ==
    { [type |-> "null", chars |-> <<>>, val |-> 0],
      [type |-> "undefined", chars |-> <<>>, val |-> 0],
      [type |-> "number", chars |-> <<>>, val |-> 123],
      [type |-> "number", chars |-> <<>>, val |-> 0],
      [type |-> "boolean", chars |-> <<>>, val |-> 1],
      [type |-> "boolean", chars |-> <<>>, val |-> 0],
      [type |-> "object", chars |-> <<>>, val |-> 0] }

\* typeof: null reports "object"
TypeOf(v) == IF v.type = "null" THEN "object" ELSE v.type

\* ToBoolean, as applied by the ! operator
Truthy(v) ==
    CASE v.type = "undefined" -> FALSE
      [] v.type = "null" -> FALSE
      [] v.type = "boolean" -> v.val = 1
      [] v.type = "number" -> v.val # 0
      [] v.type = "string" -> Len(v.chars) > 0
      [] OTHER -> TRUE

(***************************************************************************)
(* String and number primitives used by the function.                      *)
(***************************************************************************)
\* String.prototype.repeat for a one-character string
repeat(c, n) == [i \in 1..n |-> c]

\* variant: no padding at all
padStartNone(s, targetLength, c) == s

\* String.prototype.padStart with a one-character filler
padStart(s, targetLength, c) ==
    IF Len(s) >= targetLength THEN s
    ELSE repeat(c, targetLength - Len(s)) \o s

\* parseInt on a non-empty string of digits, in the given radix: digits are
\* consumed while they are below the radix
RECURSIVE parseDigits(_, _, _)
parseDigits(s, radix, acc) ==
    IF s = <<>> \/ DigitValue(Head(s)) >= radix THEN acc
    ELSE parseDigits(Tail(s), radix, acc * radix + DigitValue(Head(s)))

parseInt(s, radix) == parseDigits(s, radix, 0)

\* Number.prototype.toString of a non-negative integer
RECURSIVE toString(_)
toString(n) ==
    IF n < 10 THEN <<DigitChar(n)>>
    ELSE toString(n \div 10) \o <<DigitChar(n % 10)>>

(***************************************************************************)
(* stringIncrement.                                                        *)
(***************************************************************************)
Error == <<"E", "r", "r", "o", "r">>

\* upper bounds of the two quantifiers {1,4} of the regular expression
MaxLetterCount == 4
MaxDigitCount == 4

\* the overflow threshold: more than 4 digits
MaxWidth == 4

Null == <<>>

Return(s) == [threw |-> FALSE, value |-> s]

\* a TypeError raised by the runtime
Throw == [threw |-> TRUE, value |-> <<>>]

\* String.prototype.trim, whitespace being space, tab and line feed
RECURSIVE trimStart(_)
trimStart(s) ==
    IF s # <<>> /\ Head(s) \in {" ", "\n", "\t"} THEN trimStart(Tail(s)) ELSE s

RECURSIVE trimEnd(_)
trimEnd(s) ==
    IF s # <<>> /\ s[Len(s)] \in {" ", "\n", "\t"}
    THEN trimEnd(SubSeq(s, 1, Len(s) - 1)) ELSE s

\* variant: the input is trimmed before it is matched
validFormatRegexTrimmed(s) ==
    LET t == trimEnd(trimStart(s))
        splits == { k \in 1..MaxLetterCount :
                      /\ k < Len(t)
                      /\ Len(t) - k <= MaxDigitCount
                      /\ \A i \in 1..k : IsLetter(t[i])
                      /\ \A i \in (k + 1)..Len(t) : IsDigit(t[i]) }
    IN  IF splits = {} THEN Null
        ELSE LET k == CHOOSE k \in splits : TRUE
             IN  <<t, SubSeq(t, 1, k), SubSeq(t, k + 1, Len(t))>>

\* input.match(/^([A-Za-z]{1,4})(\d{1,4})$/): the match array
\* <<whole match, group 1, group 2>>, or null
validFormatRegex(s) ==
    LET splits == { k \in 1..MaxLetterCount :
                      /\ k < Len(s)
                      /\ Len(s) - k <= MaxDigitCount
                      /\ \A i \in 1..k : IsLetter(s[i])
                      /\ \A i \in (k + 1)..Len(s) : IsDigit(s[i]) }
    IN  IF splits = {} THEN Null
        ELSE LET k == CHOOSE k \in splits : TRUE
             IN  <<s, SubSeq(s, 1, k), SubSeq(s, k + 1, Len(s))>>

\* variant: if (!input), the type test left out
InvalidInputFalsyOnly(v) == ~Truthy(v)

\* variant: if (input == null || input === '')
InvalidInputNullish(v) ==
    \/ v.type \in {"null", "undefined"}
    \/ (v.type = "string" /\ v.chars = <<>>)

\* if (!input || typeof input !== 'string')
InvalidInput(v) == ~Truthy(v) \/ TypeOf(v) # "string"

\* variant: match.length <= 3
NoMatchOffByOne(match) == match = Null \/ Len(match) <= 3

\* if (!match || match.length < 3)
NoMatch(match) == match = Null \/ Len(match) < 3

\* String.prototype.toUpperCase and toLowerCase on ASCII text
UpperOf ==
    [c \in LowerLetters |->
        UpperCase[CHOOSE j \in DOMAIN LowerCase : LowerCase[j] = c]]

LowerOf ==
    [c \in UpperLetters |->
        LowerCase[CHOOSE j \in DOMAIN UpperCase : UpperCase[j] = c]]

toUpperCase(s) ==
    [i \in DOMAIN s |-> IF s[i] \in LowerLetters THEN UpperOf[s[i]] ELSE s[i]]

toLowerCase(s) ==
    [i \in DOMAIN s |-> IF s[i] \in UpperLetters THEN LowerOf[s[i]] ELSE s[i]]

\* variant: the prefix normalised to upper case
letterPartUpper(match) == toUpperCase(match[2])

\* variant: the prefix normalised to lower case
letterPartLower(match) == toLowerCase(match[2])

\* const letterPart = match[1]
letterPart(match) == match[2]

\* const digitPart = match[2]
digitPart(match) == match[3]

\* variant: parseInt without a radix in a legacy engine, where a leading
\* zero selects base 8
currentNumberLegacyOctal(digits) ==
    IF Len(digits) > 1 /\ Head(digits) = "0"
    THEN parseInt(digits, 8) ELSE parseInt(digits, 10)

\* const currentNumber = parseInt(digitPart, 10)
currentNumber(digits) == parseInt(digits, 10)

\* variant: the number is advanced by two
incrementedNumberByTwo(n) == n + 2

\* const incrementedNumber = currentNumber + 1
incrementedNumber(n) == n + 1

\* variant: any growth of the digit count resets to zeros
newDigitPartFixedWidth(digits, incrementedStr) ==
    IF Len(incrementedStr) > Len(digits)
    THEN repeat("0", Len(digits))
    ELSE padStart(incrementedStr, Len(digits), "0")

\* variant: no overflow check
newDigitPartNoOverflow(digits, incrementedStr) ==
    IF Len(incrementedStr) > Len(digits)
    THEN incrementedStr
    ELSE padStart(incrementedStr, Len(digits), "0")

\* variant: on overflow, as many zeros as the incremented value has digits
newDigitPartOverflowWide(digits, incrementedStr) ==
    IF Len(incrementedStr) > MaxWidth
    THEN repeat("0", Len(incrementedStr))
    ELSE IF Len(incrementedStr) > Len(digits)
         THEN incrementedStr
         ELSE padStart(incrementedStr, Len(digits), "0")

\* variant: the incremented value is never padded
newDigitPartUnpadded(digits, incrementedStr) ==
    IF Len(incrementedStr) > MaxWidth
    THEN repeat("0", Len(digits))
    ELSE incrementedStr

\* variant: the overflow test compares with 3 digits
newDigitPartOverflowAtThree(digits, incrementedStr) ==
    IF Len(incrementedStr) > MaxWidth - 1
    THEN repeat("0", Len(digits))
    ELSE IF Len(incrementedStr) > Len(digits)
         THEN incrementedStr
         ELSE padStart(incrementedStr, Len(digits), "0")

\* variant: on overflow a single zero
newDigitPartOverflowSingleZero(digits, incrementedStr) ==
    IF Len(incrementedStr) > MaxWidth
    THEN <<"0">>
    ELSE IF Len(incrementedStr) > Len(digits)
         THEN incrementedStr
         ELSE padStart(incrementedStr, Len(digits), "0")

\* the three-way choice of the new digit part
newDigitPart(digits, incrementedStr) ==
    IF Len(incrementedStr) > MaxWidth
    THEN repeat("0", Len(digits))
    ELSE IF Len(incrementedStr) > Len(digits)
         THEN incrementedStr
         ELSE padStart(incrementedStr, Len(digits), "0")

\* lines 164-174: which branch of the three-way choice is taken
branchTaken(digits, incrementedStr) ==
    IF Len(incrementedStr) > MaxWidth THEN "overflow"
    ELSE IF Len(incrementedStr) > Len(digits) THEN "growth"
    ELSE "padding"

\* the branch taken for a match array
branchOf(match) ==
    branchTaken(digitPart(match),
                toString(incrementedNumber(currentNumber(digitPart(match)))))

\* variant: the width of the new digit part is taken from the letter part
afterMatchPadToPrefix(match) ==
    IF NoMatch(match) THEN Return(Error)
    ELSE LET incrementedStr ==
                 toString(incrementedNumber(currentNumber(digitPart(match))))
         IN  Return(letterPart(match)
                      \o newDigitPart(letterPart(match), incrementedStr))

\* lines 149-177: what the function does with the match array
afterMatch(match) ==
    IF NoMatch(match) THEN Return(Error)
    ELSE LET incrementedStr ==
                 toString(incrementedNumber(currentNumber(digitPart(match))))
         IN  Return(letterPart(match)
                      \o newDigitPart(digitPart(match), incrementedStr))

\* the function: its result is Return(string) or Throw.  Calling .match
\* on a value that is not a string raises a TypeError.
stringIncrement(v) ==
    IF InvalidInput(v) THEN Return(Error)
    ELSE IF TypeOf(v) # "string" THEN Throw
    ELSE afterMatch(validFormatRegex(v.chars))

(***************************************************************************)
(* The explored inputs.                                                    *)
(***************************************************************************)
SeqsUpTo(S, n) == UNION { [1..k -> S] : k \in 0..n }

\* letters followed by digits, each part possibly empty or too long
TokenShaped ==
    { l \o d : l \in SeqsUpTo(LetterChars, MaxLetters),
               d \in SeqsUpTo(DigitChars, MaxDigits) }

\* a short valid token with whitespace before and after it
PaddedTokens ==
    { p \o l \o d \o q :
        p \in SeqsUpTo(PadChars, MaxPad), q \in SeqsUpTo(PadChars, MaxPad),
        l \in SeqsUpTo(LetterChars, 2) \ {<<>>},
        d \in SeqsUpTo(DigitChars, 2) \ {<<>>} }

\* every short string over all the characters
ShortStrings ==
    SeqsUpTo(LetterChars \cup DigitChars \cup PadChars \cup OtherChars, MaxAny)

StringInputs == TokenShaped \cup PaddedTokens \cup ShortStrings

Inputs == NonStringInputs \cup { Str(s) : s \in StringInputs }

(***************************************************************************)
(* One call of the function by a caller.                                   *)
(***************************************************************************)
Init ==
    /\ input \in Inputs
    /\ pc = "ready"
    /\ result = <<>>
    /\ threw = FALSE
    /\ sinceZero = 0 - 1
    /\ OnlyStr

Call ==
    /\ pc = "ready"
    /\ LET r == stringIncrement(input)
       IN  /\ result' = r.value
           /\ threw' = r.threw
           /\ pc' = IF r.threw THEN "thrown" ELSE "returned"
    /\ UNCHANGED <<input, sinceZero>>
    /\ UNCHANGED notStr

Next == Call

Spec == Init /\ [][Next]_vars

(***************************************************************************)
(* A caller that applies the function to its own output, again and again.  *)
(***************************************************************************)
\* the digits at the end of a string
RECURSIVE trailingDigits(_)
trailingDigits(s) ==
    IF s = <<>> \/ ~IsDigit(s[Len(s)]) THEN <<>>
    ELSE trailingDigits(SubSeq(s, 1, Len(s) - 1)) \o <<s[Len(s)]>>

\* the caller's count of applications since the suffix was 0000
countSinceZero(n, s) ==
    IF trailingDigits(s) = <<"0", "0", "0", "0">> THEN 0
    ELSE IF n < 0 THEN n
    ELSE n + 1

\* the tokens the caller starts from
IterSeeds ==
    { l \o d : l \in SeqsUpTo(LetterChars, MaxIterLetters) \ {<<>>},
               d \in { x \in SeqsUpTo(DigitChars, MaxIterDigits) :
                         Len(x) \in 1..MaxDigitCount } }

InitIter ==
    /\ input \in { Str(s) : s \in IterSeeds }
    /\ pc = "ready"
    /\ result = <<>>
    /\ threw = FALSE
    /\ sinceZero = countSinceZero(0 - 1, input.chars)
    /\ OnlyStr

\* the returned string becomes the argument of the next call
Feed ==
    /\ pc = "returned"
    /\ input' = Str(result)
    /\ pc' = "ready"
    /\ result' = <<>>
    /\ threw' = FALSE
    /\ sinceZero' = countSinceZero(sinceZero, result)
    /\ UNCHANGED notStr

NextIter == Call \/ Feed

SpecIter == InitIter /\ [][NextIter]_vars

(***************************************************************************)
(* A series of calls in one module instance.  The only object of the       *)
(* function that carries state between uses is the RegExp: the literal is  *)
(* evaluated inside the function, so every call matches with a new object  *)
(* whose lastIndex is 0, and without the g or y flag a match starts at     *)
(* index 0 and leaves lastIndex alone.                                     *)
(***************************************************************************)
\* variant: one RegExp with the g flag at module level, used through exec:
\* the match starts at lastIndex, where ^ matches only if lastIndex is 0,
\* and a successful match moves lastIndex to its end
execRegexSharedGlobal(s, li) ==
    IF li > 0 THEN [match |-> Null, lastIndex |-> 0]
    ELSE LET m == validFormatRegex(s)
         IN  [match |-> m, lastIndex |-> IF m = Null THEN 0 ELSE Len(s)]

\* const validFormatRegex = /.../; input.match(validFormatRegex), given the
\* lastIndex li left by earlier calls: the match array and the lastIndex
\* the next call finds
execRegex(s, li) == [match |-> validFormatRegex(s), lastIndex |-> li]

\* one call made when the module-level state is li
stringIncrementAt(v, li) ==
    IF InvalidInput(v) THEN [outcome |-> Return(Error), lastIndex |-> li]
    ELSE IF TypeOf(v) # "string" THEN [outcome |-> Throw, lastIndex |-> li]
    ELSE LET e == execRegex(v.chars, li)
         IN  [outcome |-> afterMatch(e.match), lastIndex |-> e.lastIndex]

\* the arguments of the calls
CallInputs ==
    NonStringInputs
      \cup { Str(s) : s \in { <<"a", "1">>, <<"Z", "0", "9">>,
                              <<"a", "Z", "9", "9", "9", "9">>,
                              <<>>, <<"a">>, <<" ", "a", "1">> } }

InitCalls ==
    /\ input \in CallInputs
    /\ pc = "ready"
    /\ result = <<>>
    /\ threw = FALSE
    /\ sinceZero = 0 - 1
    /\ OnlyStr

\* the next call, with any argument
CallOn(v) ==
    /\ Len(history) < MaxCalls
    /\ LET r == stringIncrementAt(v, lastIndex)
       IN  /\ input' = v
           /\ result' = r.outcome.value
           /\ threw' = r.outcome.threw
           /\ pc' = IF r.outcome.threw THEN "thrown" ELSE "returned"
           /\ lastIndex' = r.lastIndex
           /\ history' = Append(history, [input |-> v, outcome |-> r.outcome])
    /\ UNCHANGED sinceZero
    /\ UNCHANGED notStrCalls

NextCalls == \E v \in CallInputs : CallOn(v)

SpecCalls == InitCalls /\ [][NextCalls]_vars

(***************************************************************************)
(* Several callers inside the function at once, their steps interleaved.   *)
(* The parameter and the constants match, currentNumber, incrementedStr    *)
(* and newDigitPart live in the frame of the call.                         *)
(***************************************************************************)
Callers == 1..NumCallers

\* variant: the locals kept in module-level variables, one set for all calls
SlotShared(c) == 1

\* the frame a call's parameter and block-scoped declarations live in: a new
\* one per call
Slot(c) == c

EmptyFrame ==
    [input |-> Str(<<>>), match |-> Null, currentNumber |-> 0,
     incrementedStr |-> <<>>, newDigitPart |-> <<>>]

ConcInputs ==
    { [type |-> "null", chars |-> <<>>, val |-> 0] }
      \cup { Str(s) : s \in { <<"a", "1">>, <<"a", "9">>, <<"Z", "0", "9", "9">>,
                              <<"a", "Z", "9", "9", "9", "9">>, <<"a">> } }

InitConc ==
    /\ StrIdle
    /\ CallsIdle
    /\ E2EIdle
    /\ CfgIdle
    /\ RetryIdle
    /\ RateIdle
    /\ CacheIdle
    /\ WbIdle
    /\ cinput \in [Callers -> ConcInputs]
    /\ cpc = [c \in Callers |-> "idle"]
    /\ cresult = [c \in Callers |-> <<>>]
    /\ frames = [c \in Callers |-> EmptyFrame]

\* the call: the argument is bound to the parameter
Enter(c) ==
    /\ cpc[c] = "idle"
    /\ frames' = [frames EXCEPT ![Slot(c)].input = cinput[c]]
    /\ cpc' = [cpc EXCEPT ![c] = "validate"]
    /\ UNCHANGED <<cinput, cresult>>

\* lines 140-152: the two guards
Validate(c) ==
    /\ cpc[c] = "validate"
    /\ LET v == frames[Slot(c)].input
       IN  IF InvalidInput(v)
           THEN /\ cresult' = [cresult EXCEPT ![c] = Error]
                /\ cpc' = [cpc EXCEPT ![c] = "done"]
                /\ UNCHANGED frames
           ELSE IF TypeOf(v) # "string"
           THEN /\ cpc' = [cpc EXCEPT ![c] = "thrown"]
                /\ UNCHANGED <<cresult, frames>>
           ELSE LET match == validFormatRegex(v.chars)
                IN  IF NoMatch(match)
                    THEN /\ cresult' = [cresult EXCEPT ![c] = Error]
                         /\ cpc' = [cpc EXCEPT ![c] = "done"]
                         /\ UNCHANGED frames
                    ELSE /\ frames' = [frames EXCEPT ![Slot(c)].match = match]
                         /\ cpc' = [cpc EXCEPT ![c] = "parse"]
                         /\ UNCHANGED cresult
    /\ UNCHANGED cinput

\* lines 154-158
Parse(c) ==
    /\ cpc[c] = "parse"
    /\ frames' = [frames EXCEPT ![Slot(c)].currentNumber =
                      currentNumber(digitPart(frames[Slot(c)].match))]
    /\ cpc' = [cpc EXCEPT ![c] = "increment"]
    /\ UNCHANGED <<cinput, cresult>>

\* lines 159-162
Increment(c) ==
    /\ cpc[c] = "increment"
    /\ frames' = [frames EXCEPT ![Slot(c)].incrementedStr =
                      toString(incrementedNumber(frames[Slot(c)].currentNumber))]
    /\ cpc' = [cpc EXCEPT ![c] = "format"]
    /\ UNCHANGED <<cinput, cresult>>

\* lines 164-174
Format(c) ==
    /\ cpc[c] = "format"
    /\ frames' = [frames EXCEPT ![Slot(c)].newDigitPart =
                      newDigitPart(digitPart(frames[Slot(c)].match),
                                   frames[Slot(c)].incrementedStr)]
    /\ cpc' = [cpc EXCEPT ![c] = "return"]
    /\ UNCHANGED <<cinput, cresult>>

\* line 177
ReturnResult(c) ==
    /\ cpc[c] = "return"
    /\ cresult' = [cresult EXCEPT ![c] =
                      letterPart(frames[Slot(c)].match)
                        \o frames[Slot(c)].newDigitPart]
    /\ cpc' = [cpc EXCEPT ![c] = "done"]
    /\ UNCHANGED <<cinput, frames>>

NextConc ==
    \E c \in Callers :
        /\ \/ Enter(c)
           \/ Validate(c)
           \/ Parse(c)
           \/ Increment(c)
           \/ Format(c)
           \/ ReturnResult(c)
        /\ UNCHANGED notConc

SpecConc == InitConc /\ [][NextConc]_vars

(***************************************************************************)
(* The clean TODAY() test.  A calendar date is a record [y, m, d] with m   *)
(* the month index 0..11.  A text is a record [kind, m, d, y]: kind "mdy"  *)
(* is the text N/N/NNNN with the three numbers m, d, y as written; kind    *)
(* "long" is a text such as "August 22, 2025" that the Date constructor    *)
(* parses to month m, day d, year y; the other kinds are fixed texts.      *)
(***************************************************************************)
IsLeap(y) == (y % 4 = 0 /\ y % 100 # 0) \/ y % 400 = 0

DaysInMonth(y, m) ==
    IF m = 1 THEN (IF IsLeap(y) THEN 29 ELSE 28)
    ELSE IF m \in {3, 5, 8, 10} THEN 30 ELSE 31

\* carry the day of the month into the months before or after
RECURSIVE NormalizeDay(_, _, _)
NormalizeDay(y, m, d) ==
    IF d < 1
    THEN LET py == IF m = 0 THEN y - 1 ELSE y
             pm == IF m = 0 THEN 11 ELSE m - 1
         IN  NormalizeDay(py, pm, d + DaysInMonth(py, pm))
    ELSE IF d > DaysInMonth(y, m)
    THEN LET ny == IF m = 11 THEN y + 1 ELSE y
             nm == IF m = 11 THEN 0 ELSE m + 1
         IN  NormalizeDay(ny, nm, d - DaysInMonth(y, m))
    ELSE [y |-> y, m |-> m, d |-> d]

\* new Date(year, monthIndex, day): a year 0..99 means 1900 + year, and
\* months and days outside their range carry over
NewDate(year, monthIndex, day) ==
    LET y0 == IF year \in 0..99 THEN 1900 + year ELSE year
        months == y0 * 12 + monthIndex
    IN  NormalizeDay(months \div 12, months % 12, day)

Text(kind) == [kind |-> kind, m |-> 0, d |-> 0, y |-> 0]

\* 'No result found'
NoResultFound == Text("noResult")

\* 'Error getting result'
ErrorGettingResult == Text("errorGetting")

\* 'Formula processing...'
FormulaProcessing == Text("processing")

\* ''
EmptyText == Text("empty")

\* a text that is no date, such as #NAME?
OtherText == Text("other")

\* the result of verifyDateFormat: its isValid field
verifyDateFormat(dateValue, now) ==
    IF dateValue.kind = "mdy"
    THEN NewDate(dateValue.y, dateValue.m - 1, dateValue.d) = now
    ELSE IF dateValue.kind = "long"
    THEN NewDate(dateValue.y, dateValue.m - 1, dateValue.d) = now
    ELSE FALSE

\* getCellResult on a page in state page: which element carries the value
getCellResult(page) ==
    CASE page.shape = "throws" -> ErrorGettingResult
      [] page.shape = "a1label" -> page.text
      [] page.shape = "a1input" /\ page.text # EmptyText -> page.text
      [] page.shape = "otherTextbox" /\ page.text.kind = "mdy" -> page.text
      [] OTHER -> NoResultFound

\* lines 679-694: the assertions of the test
AssertionsPass(r, valid) ==
    /\ r # EmptyText
    /\ r # ErrorGettingResult
    /\ r # FormulaProcessing
    /\ (valid \/ r # EmptyText)

Todays ==
    { [y |-> 2025, m |-> 7, d |-> 22], [y |-> 2025, m |-> 2, d |-> 2],
      [y |-> 2026, m |-> 0, d |-> 1] }

CellTexts ==
    { [kind |-> k, m |-> m, d |-> d, y |-> y] :
        k \in {"mdy", "long"}, m \in {1, 2, 3, 8}, d \in {1, 2, 22, 30},
        y \in {2025, 2026} }
      \cup { [kind |-> "mdy", m |-> 13, d |-> 1, y |-> 2025] }
      \cup { NoResultFound, ErrorGettingResult, FormulaProcessing, EmptyText,
             OtherText }

PageShapes == {"a1label", "a1input", "otherTextbox", "none", "throws"}

InitE2E ==
    /\ StrIdle
    /\ CallsIdle
    /\ ConcIdle
    /\ CfgIdle
    /\ RetryIdle
    /\ RateIdle
    /\ CacheIdle
    /\ WbIdle
    /\ today \in Todays
    /\ dom \in [shape : PageShapes, text : CellTexts]
    /\ cellResult = EmptyText
    /\ validation = FALSE
    /\ tpc = "beforeEach"

\* a step of the test that drives the browser: it goes through or throws
TestStep(from, to) ==
    /\ tpc = from
    /\ \E ok \in BOOLEAN : tpc' = IF ok THEN to ELSE "failed"
    /\ UNCHANGED <<today, dom, cellResult, validation>>

\* lines 646-651
TestBeforeEach == TestStep("beforeEach", "login")

\* line 662
TestLogin == TestStep("login", "workbook")

\* line 666
TestCreateWorkbook == TestStep("workbook", "formula")

\* line 670: the formula is entered and the cell is read
TestGetResult ==
    /\ tpc = "formula"
    /\ \E ok \in BOOLEAN :
          IF ok
          THEN cellResult' = getCellResult(dom) /\ tpc' = "assert"
          ELSE cellResult' = cellResult /\ tpc' = "failed"
    /\ UNCHANGED <<today, dom, validation>>

\* lines 675-694
TestAssert ==
    /\ tpc = "assert"
    /\ validation' = verifyDateFormat(cellResult, today)
    /\ tpc' = IF AssertionsPass(cellResult, validation') THEN "cleanup"
              ELSE "failed"
    /\ UNCHANGED <<today, dom, cellResult>>

\* lines 697-699
TestCleanup ==
    /\ tpc = "cleanup"
    /\ tpc' = "passed"
    /\ UNCHANGED <<today, dom, cellResult, validation>>

NextE2E ==
    /\ \/ TestBeforeEach
       \/ TestLogin
       \/ TestCreateWorkbook
       \/ TestGetResult
       \/ TestAssert
       \/ TestCleanup
    /\ UNCHANGED notE2E

SpecE2E == InitE2E /\ [][NextE2E]_vars

(***************************************************************************)
(* ConfigLoader.  A configuration is a flat record: the has... fields say  *)
(* which nested objects exist; texts are sequences of characters; a number *)
(* is an integer, NaN being a value no explored text denotes.              *)
(***************************************************************************)
NaN == 0 - 1

NoConfig ==
    [present |-> FALSE, hasExcel |-> FALSE, hasCredentials |-> FALSE,
     username |-> <<>>, password |-> <<>>, baseUrl |-> <<>>,
     hasTimeouts |-> FALSE, navigation |-> 0, test |-> 0,
     hasBrowser |-> FALSE, headless |-> FALSE, slowMo |-> 0,
     hasViewport |-> FALSE, width |-> 0, height |-> 0]

\* the configuration of config/README.md
TemplateConfig ==
    [present |-> TRUE, hasExcel |-> TRUE, hasCredentials |-> TRUE,
     username |-> <<"u", "@", "x">>, password |-> <<"p", "w">>,
     baseUrl |-> <<"h", "t", "t", "p", "s">>,
     hasTimeouts |-> TRUE, navigation |-> 60000, test |-> 120000,
     hasBrowser |-> TRUE, headless |-> FALSE, slowMo |-> 100,
     hasViewport |-> TRUE, width |-> 1280, height |-> 720]

\* a file: whether one of the two files exists, whether its content is JSON,
\* and the configuration it holds
FileShapes ==
    { [TemplateConfig EXCEPT !.hasExcel = FALSE],
      [TemplateConfig EXCEPT !.hasCredentials = FALSE],
      [TemplateConfig EXCEPT !.hasTimeouts = FALSE],
      [TemplateConfig EXCEPT !.hasBrowser = FALSE],
      [TemplateConfig EXCEPT !.hasViewport = FALSE],
      [TemplateConfig EXCEPT !.baseUrl = <<>>],
      [TemplateConfig EXCEPT !.width = 0],
      TemplateConfig }

FileConfigs ==
    { [s EXCEPT !.username = u, !.password = p, !.navigation = n,
                !.headless = h] :
        s \in FileShapes, u \in {<<>>, <<"u", "@", "x">>},
        p \in {<<>>, <<"p", "w">>}, n \in {0, 500, 1000, 60000},
        h \in BOOLEAN }

Files ==
    { [exists |-> FALSE, json |-> FALSE, content |-> NoConfig],
      [exists |-> TRUE, json |-> FALSE, content |-> NoConfig] }
      \cup { [exists |-> TRUE, json |-> TRUE, content |-> c] : c \in FileConfigs }

\* an environment variable: unset, or set to a text
Unset == [set |-> FALSE, text |-> <<>>]

SetTo(s) == [set |-> TRUE, text |-> s]

Envs ==
    [ EXCEL_USERNAME : {Unset, SetTo(<<>>), SetTo(<<"e", "@", "y">>)},
      EXCEL_PASSWORD : {Unset, SetTo(<<"s", "e", "c">>)},
      HEADLESS : {Unset, SetTo(<<>>), SetTo(<<"t", "r", "u", "e">>),
                  SetTo(<<"T", "R", "U", "E">>),
                  SetTo(<<"f", "a", "l", "s", "e">>)},
      SLOW_MO : {Unset, SetTo(<<"0">>), SetTo(<<"2", "5", "0">>),
                 SetTo(<<"1", "2", "p", "x">>), SetTo(<<"a", "b", "c">>)},
      TEST_TIMEOUT : {Unset, SetTo(<<>>), SetTo(<<"5", "0", "0", "0">>)} ]

\* if (process.env.X): the variable is set and its text is not empty
EnvTruthy(v) == v.set /\ v.text # <<>>

\* the digits a text starts with
RECURSIVE LeadingDigits(_)
LeadingDigits(s) ==
    IF s = <<>> \/ ~IsDigit(Head(s)) THEN <<>>
    ELSE <<Head(s)>> \o LeadingDigits(Tail(s))

\* parseInt(text, 10) on a text without leading white space or sign
parseIntText(s) ==
    IF LeadingDigits(s) = <<>> THEN NaN ELSE parseInt(LeadingDigits(s), 10)

\* variant: the text compared without lower-casing
headlessFromEnvCaseSensitive(s) == s = <<"t", "r", "u", "e">>

\* process.env.HEADLESS.toLowerCase() === 'true'
headlessFromEnv(s) == toLowerCase(s) = <<"t", "r", "u", "e">>

\* applyEnvironmentOverrides: assigning into a nested object that does not
\* exist raises a TypeError
applyEnvironmentOverrides(c, e) ==
    IF \/ (EnvTruthy(e.EXCEL_USERNAME) \/ EnvTruthy(e.EXCEL_PASSWORD))
            /\ ~(c.hasExcel /\ c.hasCredentials)
       \/ (EnvTruthy(e.HEADLESS) \/ EnvTruthy(e.SLOW_MO)) /\ ~c.hasBrowser
       \/ EnvTruthy(e.TEST_TIMEOUT) /\ ~(c.hasExcel /\ c.hasTimeouts)
    THEN [threw |-> TRUE, value |-> NoConfig]
    ELSE [threw |-> FALSE,
          value |->
            [c EXCEPT
               !.username = IF EnvTruthy(e.EXCEL_USERNAME)
                            THEN e.EXCEL_USERNAME.text ELSE @,
               !.password = IF EnvTruthy(e.EXCEL_PASSWORD)
                            THEN e.EXCEL_PASSWORD.text ELSE @,
               !.headless = IF EnvTruthy(e.HEADLESS)
                            THEN headlessFromEnv(e.HEADLESS.text) ELSE @,
               !.slowMo = IF EnvTruthy(e.SLOW_MO)
                          THEN parseIntText(e.SLOW_MO.text) ELSE @,
               !.test = IF EnvTruthy(e.TEST_TIMEOUT)
                        THEN parseIntText(e.TEST_TIMEOUT.text) ELSE @]]

NavigationMessage == "Navigation timeout must be at least 1000ms"

\* a number is truthy unless it is 0 or NaN
NumberTruthy(n) == n # 0 /\ n # NaN

\* validateConfig: the list of errors it collects; it throws when the list
\* is not empty
validateConfig(c) ==
    (IF ~(c.hasExcel /\ c.hasCredentials /\ c.username # <<>>)
     THEN <<"Excel username is required">> ELSE <<>>)
    \o (IF ~(c.hasExcel /\ c.hasCredentials /\ c.password # <<>>)
        THEN <<"Excel password is required">> ELSE <<>>)
    \o (IF ~(c.hasExcel /\ c.baseUrl # <<>>)
        THEN <<"Excel base URL is required">> ELSE <<>>)
    \o (IF \/ ~(c.hasBrowser /\ c.hasViewport /\ NumberTruthy(c.width))
           \/ ~(c.hasBrowser /\ c.hasViewport /\ NumberTruthy(c.height))
        THEN <<"Browser viewport dimensions are required">> ELSE <<>>)
    \o (IF /\ c.hasExcel /\ c.hasTimeouts /\ NumberTruthy(c.navigation)
           /\ c.navigation < 1000
        THEN <<NavigationMessage>> ELSE <<>>)

NoOutcome ==
    [kind |-> "none", value |-> NoConfig, cause |-> "", validated |-> FALSE,
     errors |-> <<>>]

Returned(c, validated) ==
    [kind |-> "returned", value |-> c, cause |-> "", validated |-> validated,
     errors |-> <<>>]

\* throw new Error(`Configuration loading failed: ${error}`)
LoadingFailed(cause, validated, errors) ==
    [kind |-> "threw", value |-> NoConfig, cause |-> cause,
     validated |-> validated, errors |-> errors]

InitConfig ==
    /\ StrIdle
    /\ CallsIdle
    /\ ConcIdle
    /\ E2EIdle
    /\ RetryIdle
    /\ RateIdle
    /\ CacheIdle
    /\ WbIdle
    /\ file \in Files
    /\ env \in Envs
    /\ config = NoConfig
    /\ loadOutcome = NoOutcome
    /\ loads = 0

\* variant: the stored configuration is never used
cachedNever(c) == FALSE

\* if (this.config): a configuration object is stored
cached(c) == c.present

\* one call of loadConfig on the singleton
LoadConfig ==
    /\ loads < MaxLoads
    /\ loads' = loads + 1
    /\ IF cached(config)
       THEN /\ loadOutcome' = Returned(config, FALSE)
            /\ UNCHANGED config
       ELSE IF ~file.exists
       THEN /\ loadOutcome' = LoadingFailed("No configuration file found", FALSE, <<>>)
            /\ UNCHANGED config
       ELSE IF ~file.json
       THEN /\ loadOutcome' = LoadingFailed("Failed to parse configuration file", FALSE, <<>>)
            /\ UNCHANGED config
       ELSE LET o == applyEnvironmentOverrides(file.content, env)
            IN  IF o.threw
                THEN /\ loadOutcome' = LoadingFailed("TypeError", FALSE, <<>>)
                     /\ UNCHANGED config
                ELSE /\ config' = o.value
                     /\ loadOutcome' =
                          IF validateConfig(o.value) = <<>>
                          THEN Returned(o.value, TRUE)
                          ELSE LoadingFailed("Configuration validation failed",
                                             TRUE, validateConfig(o.value))
    /\ UNCHANGED <<file, env>>

NextConfig == LoadConfig /\ UNCHANGED notCfg

SpecConfig == InitConfig /\ [][NextConfig]_vars

(***************************************************************************)
(* DateUtils.validateTodayFunction, applied to a cell text on a given day.  *)
(* The texts are the trimmed values.  Kind "iso" is the text NNNN-N-N with  *)
(* the numbers y, m, d as written.  new Date(text) on a text that is not    *)
(* in the ISO format is implementation-defined; the outcomes are those of   *)
(* the V8 engine the tests run on.                                          *)
(***************************************************************************)
\* a Date whose time value is NaN
InvalidDate == [y |-> 0 - 1, m |-> 0 - 1, d |-> 0 - 1]

\* isNaN(date.getTime())
isNaNTime(date) == date = InvalidDate

\* the day before a calendar date
DayBefore(date) == NewDate(date.y, date.m, date.d - 1)

\* new Date(cleanValue): the dates the constructor can give for a text.
\* N/N/NNNN is read month first, and rejected when the first number is no
\* month or the second no day of a month; a day beyond the end of the month
\* carries over or is rejected.  An ISO date is midnight UTC, which is the
\* day before in a time zone west of Greenwich.
directParse(text) ==
    CASE text.kind = "mdy" ->
           IF text.m \in 1..12 /\ text.d \in 1..31
           THEN IF text.d <= DaysInMonth(text.y, text.m - 1)
                THEN {NewDate(text.y, text.m - 1, text.d)}
                ELSE {NewDate(text.y, text.m - 1, text.d), InvalidDate}
           ELSE {InvalidDate}
      [] text.kind = "long" -> {NewDate(text.y, text.m - 1, text.d)}
      [] text.kind = "iso" ->
           IF text.m \in 1..12 /\ text.d \in 1..DaysInMonth(text.y, text.m - 1)
           THEN {NewDate(text.y, text.m - 1, text.d),
                 DayBefore(NewDate(text.y, text.m - 1, text.d))}
           ELSE {InvalidDate}
      [] OTHER -> {InvalidDate}

\* lines 27-30: the text matches N/N/NNNN and is read as MM/DD/YYYY
tryMonthFirst(text, parsed) ==
    IF text.kind = "mdy" THEN NewDate(text.y, text.m - 1, text.d) ELSE parsed

\* lines 33-38: if the date is still invalid, the text is read as DD/MM/YYYY
tryDayFirst(text, parsed) ==
    IF isNaNTime(parsed) /\ text.kind = "mdy"
    THEN NewDate(text.y, text.d - 1, text.m) ELSE parsed

\* lines 41-46: if the date is still invalid, the text is read as YYYY-MM-DD
tryIso(text, parsed) ==
    IF isNaNTime(parsed) /\ text.kind = "iso"
    THEN NewDate(text.y, text.m - 1, text.d) ELSE parsed

\* lines 22-47: the date the text is taken for
parseCellDate(text, direct) ==
    IF isNaNTime(direct)
    THEN tryIso(text, tryDayFirst(text, tryMonthFirst(text, direct)))
    ELSE direct

\* isSameDate: year, month and day agree
isSameDate(date1, date2) ==
    date1.y = date2.y /\ date1.m = date2.m /\ date1.d = date2.d

NoValidation ==
    [isValid |-> FALSE, message |-> "", direct |-> InvalidDate,
     parsed |-> InvalidDate]

\* the DateValidationResult, with the Date objects the function went through
validateTodayFunction(text, now, direct) ==
    LET parsedDate == parseCellDate(text, direct)
    IN  IF isNaNTime(parsedDate)
        THEN [isValid |-> FALSE, message |-> "Unable to parse date",
              direct |-> direct, parsed |-> parsedDate]
        ELSE [isValid |-> isSameDate(parsedDate, now),
              message |-> IF isSameDate(parsedDate, now)
                          THEN "TODAY() function returned correct current date"
                          ELSE "Date mismatch",
              direct |-> direct, parsed |-> parsedDate]

\* the cell texts the function is applied to
ValidateTexts ==
    CellTexts
      \cup { [kind |-> "mdy", m |-> a, d |-> b, y |-> 2025] :
               a \in {13, 22, 30}, b \in {1, 2, 8} }
      \cup { [kind |-> "iso", m |-> m, d |-> d, y |-> y] :
               m \in {1, 3, 8, 13}, d \in {1, 2, 22}, y \in {2025, 2026} }

InitValidate ==
    /\ StrIdle
    /\ CallsIdle
    /\ ConcIdle
    /\ CfgIdle
    /\ RetryIdle
    /\ RateIdle
    /\ CacheIdle
    /\ WbIdle
    /\ today \in Todays
    /\ dom = <<>>
    /\ cellResult \in ValidateTexts
    /\ validation = NoValidation
    /\ tpc = "validate"

\* one call of validateTodayFunction
ValidateToday ==
    /\ tpc = "validate"
    /\ \E direct \in directParse(cellResult) :
          validation' = validateTodayFunction(cellResult, today, direct)
    /\ tpc' = "validated"
    /\ UNCHANGED <<today, dom, cellResult>>
    /\ UNCHANGED notE2E

NextValidate == ValidateToday

SpecValidate == InitValidate /\ [][NextValidate]_vars

(***************************************************************************)
(* ExcelOnlinePageClean.createNewWorkbook.  The page is the environment:   *)
(* its URL, the number of table rows with the text Book and the creation   *)
(* controls that are visible are given, and every call into the browser    *)
(* resolves or throws.                                                     *)
(***************************************************************************)
\* the three entries of workbookSelectors
NumSelectors == 3

\* which of the words the URL contains
Urls == [excel : BOOLEAN, edit : BOOLEAN, view : BOOLEAN, docaspx : BOOLEAN]

WorkbookPages ==
    [url : Urls, rows : 0..MaxWorkbookRows, visible : SUBSET (1..NumSelectors)]

\* line 264: the URL is that of an Excel workbook
inWorkbook(url) == url.excel /\ (url.edit \/ url.view \/ url.docaspx)

\* line 276: if (workbookCount > 0)
hasExisting(workbookCount) == workbookCount > 0

\* variant: the reuse branch does not return and goes on to create
afterReuseFallThrough == "trySelector"

\* line 299: return, at the end of the reuse branch
afterReuse == "returned"

NothingThrown == [message |-> "", cause |-> ""]

\* line 336: throw new Error(`Workbook creation failed: ${error}`)
CreationFailed(cause) == [message |-> "Workbook creation failed", cause |-> cause]

\* an error raised inside the try block ends the call
WbFail(cause) ==
    /\ wpc' = "threw"
    /\ wbThrown' = CreationFailed(cause)

InitWorkbook ==
    /\ StrIdle
    /\ CallsIdle
    /\ ConcIdle
    /\ E2EIdle
    /\ CfgIdle
    /\ RetryIdle
    /\ RateIdle
    /\ CacheIdle
    /\ wbPage \in WorkbookPages
    /\ clicks = <<>>
    /\ workbookName = ""
    /\ selector = 0
    /\ wpc = "start"
    /\ wbThrown = NothingThrown

\* lines 260-264: waitForLoadState, then the test of the URL
WbCheckUrl ==
    /\ wpc = "start"
    /\ \/ /\ wpc' = IF inWorkbook(wbPage.url) THEN "currentWait" ELSE "count"
          /\ UNCHANGED wbThrown
       \/ WbFail("waitForLoadState")
    /\ UNCHANGED <<wbPage, clicks, workbookName, selector>>

\* lines 265-268: already in a workbook
WbReuseCurrent ==
    /\ wpc = "currentWait"
    /\ \/ /\ workbookName' = "Existing_Workbook"
          /\ wpc' = "returned"
          /\ UNCHANGED wbThrown
       \/ /\ WbFail("waitForExcelInterface")
          /\ UNCHANGED workbookName
    /\ UNCHANGED <<wbPage, clicks, selector>>

\* lines 273-276 and 302-310: the existing rows are counted
WbCount ==
    /\ wpc = "count"
    /\ \/ /\ IF hasExisting(wbPage.rows)
             THEN wpc' = "clickRow" /\ UNCHANGED selector
             ELSE wpc' = "trySelector" /\ selector' = 1
          /\ UNCHANGED wbThrown
       \/ /\ WbFail("count")
          /\ UNCHANGED selector
    /\ UNCHANGED <<wbPage, clicks, workbookName>>

\* lines 277-279: the first existing row is clicked
WbClickRow ==
    /\ wpc = "clickRow"
    /\ \/ /\ clicks' = Append(clicks, 0)
          /\ wpc' = "reusedWait"
          /\ UNCHANGED wbThrown
       \/ /\ WbFail("click")
          /\ UNCHANGED clicks
    /\ UNCHANGED <<wbPage, workbookName, selector>>

\* lines 281-299: the tab is found, the interface awaited, and the call ends
WbReuseExisting ==
    /\ wpc = "reusedWait"
    /\ \/ /\ workbookName' = "Reused_Existing_Workbook"
          /\ wpc' = afterReuse
          /\ selector' = IF afterReuse = "trySelector" THEN 1 ELSE selector
          /\ UNCHANGED wbThrown
       \/ /\ WbFail("waitForExcelInterface")
          /\ UNCHANGED <<workbookName, selector>>
    /\ UNCHANGED <<wbPage, clicks>>

\* lines 311-327: one round of the loop over the selectors; a control that
\* is not visible, or whose isVisible or click throws, is skipped
WbTrySelector ==
    /\ wpc = "trySelector"
    /\ \/ /\ selector \in wbPage.visible
          /\ clicks' = Append(clicks, selector)
          /\ wpc' = "createdWait"
          /\ UNCHANGED <<selector, wbThrown>>
       \/ /\ selector < NumSelectors
          /\ selector' = selector + 1
          /\ UNCHANGED <<clicks, wpc, wbThrown>>
       \/ /\ selector = NumSelectors
          /\ WbFail("Could not find workbook creation option")
          /\ UNCHANGED <<clicks, selector>>
    /\ UNCHANGED <<wbPage, workbookName>>

\* lines 330-333: the new workbook's interface is awaited
WbCreated ==
    /\ wpc = "createdWait"
    /\ \/ /\ workbookName' = "Test_Workbook"
          /\ wpc' = "returned"
          /\ UNCHANGED wbThrown
       \/ /\ WbFail("waitForExcelInterface")
          /\ UNCHANGED workbookName
    /\ UNCHANGED <<wbPage, clicks, selector>>

NextWorkbook ==
    /\ \/ WbCheckUrl
       \/ WbReuseCurrent
       \/ WbCount
       \/ WbClickRow
       \/ WbReuseExisting
       \/ WbTrySelector
       \/ WbCreated
    /\ UNCHANGED notWb

SpecWorkbook == InitWorkbook /\ [][NextWorkbook]_vars

(***************************************************************************)
(* The ConfigLoader class used by several callers while the configuration  *)
(* file and the environment variables change between the calls.            *)
(***************************************************************************)
CacheFiles ==
    { [exists |-> FALSE, json |-> FALSE, content |-> NoConfig],
      [exists |-> TRUE, json |-> TRUE, content |-> TemplateConfig],
      [exists |-> TRUE, json |-> TRUE,
       content |-> [TemplateConfig EXCEPT !.username = <<>>]],
      [exists |-> TRUE, json |-> TRUE,
       content |-> [TemplateConfig EXCEPT !.navigation = 1000,
                                          !.headless = TRUE]] }

CacheEnvs ==
    { e \in Envs :
        /\ e.EXCEL_PASSWORD = Unset
        /\ e.SLOW_MO = Unset
        /\ e.TEST_TIMEOUT = Unset
        /\ e.EXCEL_USERNAME \in {Unset, SetTo(<<"e", "@", "y">>)}
        /\ e.HEADLESS \in {Unset, SetTo(<<"t", "r", "u", "e">>)} }

NoSection == [of |-> "none", data |-> NoConfig]

\* config.excel: the fields of the excel section
excelOf(c) ==
    [c EXCEPT !.hasBrowser = FALSE, !.headless = FALSE, !.slowMo = 0,
              !.hasViewport = FALSE, !.width = 0, !.height = 0]

\* config.browser: the fields of the browser section
browserOf(c) ==
    [c EXCEPT !.hasExcel = FALSE, !.hasCredentials = FALSE,
              !.username = <<>>, !.password = <<>>, !.baseUrl = <<>>,
              !.hasTimeouts = FALSE, !.navigation = 0, !.test = 0]

InitCache ==
    /\ StrIdle
    /\ CallsIdle
    /\ ConcIdle
    /\ E2EIdle
    /\ RetryIdle
    /\ RateIdle
    /\ WbIdle
    /\ file \in CacheFiles
    /\ env \in CacheEnvs
    /\ config = NoConfig
    /\ loadOutcome = NoOutcome
    /\ loads = 0
    /\ instance = 0
    /\ objects = 0
    /\ section = NoSection

\* lines 14-19: the instance is constructed on the first call only
GetInstance ==
    /\ IF instance = 0
       THEN /\ objects' = objects + 1
            /\ instance' = objects + 1
       ELSE UNCHANGED <<instance, objects>>
    /\ UNCHANGED <<cfgVars, section>>

\* a caller that holds the instance calls loadConfig
CallLoadConfig ==
    /\ instance # 0
    /\ LoadConfig
    /\ UNCHANGED cacheVars

\* lines 148-150: return this.loadConfig().excel
GetExcelConfig ==
    /\ instance # 0
    /\ LoadConfig
    /\ section' = IF loadOutcome'.kind = "returned"
                  THEN [of |-> "excel", data |-> excelOf(loadOutcome'.value)]
                  ELSE NoSection
    /\ UNCHANGED <<instance, objects>>

\* lines 152-154: return this.loadConfig().browser
GetBrowserConfig ==
    /\ instance # 0
    /\ LoadConfig
    /\ section' = IF loadOutcome'.kind = "returned"
                  THEN [of |-> "browser",
                        data |-> browserOf(loadOutcome'.value)]
                  ELSE NoSection
    /\ UNCHANGED <<instance, objects>>

\* the configuration file is replaced, created or removed
FileRewritten ==
    /\ \E f \in CacheFiles \ {file} : file' = f
    /\ UNCHANGED <<env, config, loadOutcome, loads, cacheVars>>

\* the environment variables change
EnvChanged ==
    /\ \E e \in CacheEnvs \ {env} : env' = e
    /\ UNCHANGED <<file, config, loadOutcome, loads, cacheVars>>

NextCache ==
    /\ \/ GetInstance
       \/ CallLoadConfig
       \/ GetExcelConfig
       \/ GetBrowserConfig
       \/ FileRewritten
       \/ EnvChanged
    /\ UNCHANGED notCache

SpecCache == InitCache /\ [][NextCache]_vars

(***************************************************************************)
(* BrowserUtils.retryOperation.  The operation is any asynchronous         *)
(* function: each invocation resolves with a value or rejects with an      *)
(* Error that has a message.                                               *)
(***************************************************************************)
OperationValues == {"v1", "v2"}

OperationErrors == {"timeout", "not visible"}

RetryArgs == (0 - 1)..MaxRetryArg

BaseDelays == {0, 100, 1000}

\* let lastError: Error, before any assignment
NoError == [defined |-> FALSE, message |-> ""]

ErrorWith(msg) == [defined |-> TRUE, message |-> msg]

Pending ==
    [kind |-> "pending", value |-> "", wrapped |-> FALSE, attempts |-> 0,
     defined |-> FALSE, message |-> ""]

\* return await operation()
Resolved(v) ==
    [kind |-> "resolved", value |-> v, wrapped |-> FALSE, attempts |-> 0,
     defined |-> FALSE, message |-> ""]

\* throw new Error(`Operation failed after ${maxRetries} attempts. Last
\* error: ${lastError.message}`)
RejectedAfter(n, e) ==
    [kind |-> "rejected", value |-> "", wrapped |-> TRUE, attempts |-> n,
     defined |-> TRUE, message |-> e.message]

\* throw lastError!
RejectedWith(e) ==
    [kind |-> "rejected", value |-> "", wrapped |-> FALSE, attempts |-> 0,
     defined |-> e.defined, message |-> e.message]

\* variant: the result of the operation is not returned from the loop
onSuccessNoReturn(v) == [rpc |-> "advance", settled |-> Pending]

\* line 44: a successful invocation ends the call
onSuccess(v) == [rpc |-> "done", settled |-> Resolved(v)]

\* variant: the delay grows linearly
backoffDelayLinear(base, n) == base * n

\* const delay = baseDelay * Math.pow(2, attempt - 1)
backoffDelay(base, n) == base * 2 ^ (n - 1)

\* variant: a do-while loop, the first attempt is made without the test
LoopTestAtLeastOnce(n) ==
    IF n = 1 \/ n <= maxRetries
    THEN [rpc |-> "invoke", settled |-> Pending]
    ELSE [rpc |-> "done", settled |-> RejectedWith(lastError)]

\* the loop condition attempt <= maxRetries, and line 58 when it fails
LoopTest(n) ==
    IF n <= maxRetries
    THEN [rpc |-> "invoke", settled |-> Pending]
    ELSE [rpc |-> "done", settled |-> RejectedWith(lastError)]

InitRetry ==
    /\ StrIdle
    /\ CallsIdle
    /\ ConcIdle
    /\ E2EIdle
    /\ CfgIdle
    /\ RateIdle
    /\ CacheIdle
    /\ WbIdle
    /\ maxRetries \in RetryArgs
    /\ baseDelay \in BaseDelays
    /\ attempt = 0
    /\ invocations = <<>>
    /\ sleeps = <<>>
    /\ lastError = NoError
    /\ rpc = "start"
    /\ settled = Pending

\* lines 40-42: let attempt = 1 and the first test of the loop condition
RetryStart ==
    /\ rpc = "start"
    /\ attempt' = 1
    /\ rpc' = LoopTest(1).rpc
    /\ settled' = LoopTest(1).settled
    /\ UNCHANGED <<maxRetries, baseDelay, invocations, sleeps, lastError>>

\* line 44: the operation is invoked and resolves
RetryInvokeResolves ==
    /\ rpc = "invoke"
    /\ \E v \in OperationValues :
          /\ invocations' = Append(invocations, [ok |-> TRUE, value |-> v])
          /\ rpc' = onSuccess(v).rpc
          /\ settled' = onSuccess(v).settled
    /\ UNCHANGED <<maxRetries, baseDelay, attempt, sleeps, lastError>>

\* lines 44-50: the operation is invoked and rejects
RetryInvokeRejects ==
    /\ rpc = "invoke"
    /\ \E msg \in OperationErrors :
          /\ invocations' = Append(invocations, [ok |-> FALSE, value |-> msg])
          /\ lastError' = ErrorWith(msg)
          /\ IF attempt = maxRetries
             THEN /\ rpc' = "done"
                  /\ settled' = RejectedAfter(maxRetries, ErrorWith(msg))
             ELSE /\ rpc' = "sleep"
                  /\ UNCHANGED settled
    /\ UNCHANGED <<maxRetries, baseDelay, attempt, sleeps>>

\* lines 52-54
RetrySleep ==
    /\ rpc = "sleep"
    /\ sleeps' = Append(sleeps, backoffDelay(baseDelay, attempt))
    /\ rpc' = "advance"
    /\ UNCHANGED <<maxRetries, baseDelay, attempt, invocations, lastError,
                   settled>>

\* line 42: attempt++ and the test of the loop condition
RetryAdvance ==
    /\ rpc = "advance"
    /\ attempt' = attempt + 1
    /\ rpc' = LoopTest(attempt + 1).rpc
    /\ settled' = LoopTest(attempt + 1).settled
    /\ UNCHANGED <<maxRetries, baseDelay, invocations, sleeps, lastError>>

NextRetry ==
    /\ \/ RetryStart
       \/ RetryInvokeResolves
       \/ RetryInvokeRejects
       \/ RetrySleep
       \/ RetryAdvance
    /\ UNCHANGED notRetry

SpecRetry == InitRetry /\ [][NextRetry]_vars

(***************************************************************************)
(* ExcelOnlinePageClean.handleTooManyRequestsError.  The page is the       *)
(* environment: textContent('body') returns a body with or without one of  *)
(* the error texts or throws, and reload and waitForTimeout resolve or     *)
(* throw (a navigation timeout, a closed page).                            *)
(***************************************************************************)
maxRefreshAttempts == 10

\* while (refreshAttempts < maxRefreshAttempts), and the return after it
whileTest(n) == IF n < maxRefreshAttempts THEN "check" ELSE "done"

InitRate ==
    /\ StrIdle
    /\ CallsIdle
    /\ ConcIdle
    /\ E2EIdle
    /\ CfgIdle
    /\ RetryIdle
    /\ CacheIdle
    /\ WbIdle
    /\ refreshAttempts = 0
    /\ checks = 0
    /\ reloads = 0
    /\ rlpc = whileTest(0)

\* lines 224-230: the body holds one of the error texts
CheckFindsError ==
    /\ rlpc = "check"
    /\ checks' = checks + 1
    /\ refreshAttempts' = refreshAttempts + 1
    /\ rlpc' = "reload"
    /\ UNCHANGED reloads

\* lines 224-238: the body holds none of the error texts; break
CheckFindsNone ==
    /\ rlpc = "check"
    /\ checks' = checks + 1
    /\ rlpc' = "done"
    /\ UNCHANGED <<refreshAttempts, reloads>>

\* lines 224, 241-242: textContent throws
CheckThrows ==
    /\ rlpc = "check"
    /\ checks' = checks + 1
    /\ refreshAttempts' = refreshAttempts + 1
    /\ rlpc' = "catchWait"
    /\ UNCHANGED reloads

\* line 234: the reload resolves
ReloadResolves ==
    /\ rlpc = "reload"
    /\ reloads' = reloads + 1
    /\ rlpc' = "settle"
    /\ UNCHANGED <<refreshAttempts, checks>>

\* lines 234, 241-242: the reload throws inside the try block
ReloadThrows ==
    /\ rlpc = "reload"
    /\ reloads' = reloads + 1
    /\ refreshAttempts' = refreshAttempts + 1
    /\ rlpc' = "catchWait"
    /\ UNCHANGED checks

\* line 235: waitForTimeout(3000) resolves; back to the loop condition
SettleResolves ==
    /\ rlpc = "settle"
    /\ rlpc' = whileTest(refreshAttempts)
    /\ UNCHANGED <<refreshAttempts, checks, reloads>>

\* lines 235, 241-242: waitForTimeout(3000) throws inside the try block
SettleThrows ==
    /\ rlpc = "settle"
    /\ refreshAttempts' = refreshAttempts + 1
    /\ rlpc' = "catchWait"
    /\ UNCHANGED <<checks, reloads>>

\* line 244: waitForTimeout(2000) resolves; back to the loop condition
CatchWaitResolves ==
    /\ rlpc = "catchWait"
    /\ rlpc' = whileTest(refreshAttempts)
    /\ UNCHANGED <<refreshAttempts, checks, reloads>>

\* line 244: waitForTimeout(2000) throws inside the catch block, and the
\* promise of handleTooManyRequestsError rejects
CatchWaitThrows ==
    /\ rlpc = "catchWait"
    /\ rlpc' = "rejected"
    /\ UNCHANGED <<refreshAttempts, checks, reloads>>

NextRate ==
    /\ \/ CheckFindsError
       \/ CheckFindsNone
       \/ CheckThrows
       \/ ReloadResolves
       \/ ReloadThrows
       \/ SettleResolves
       \/ SettleThrows
       \/ CatchWaitResolves
       \/ CatchWaitThrows
    /\ UNCHANGED notRate

SpecRate == InitRate /\ [][NextRate]_vars

(***************************************************************************)
(* Vocabulary of the properties: the shape of a token, read off a string   *)
(* without the function's own matching.                                    *)
(***************************************************************************)
\* number of letters at the start of s
LetterRun(s) ==
    Cardinality({ k \in 1..Len(s) : \A i \in 1..k : IsLetter(s[i]) })

PrefixOf(s) == SubSeq(s, 1, LetterRun(s))

SuffixOf(s) == SubSeq(s, LetterRun(s) + 1, Len(s))

AllDigits(s) == \A i \in DOMAIN s : IsDigit(s[i])

\* 1 to 4 ASCII letters immediately followed by 1 to 4 decimal digits
IsToken(s) ==
    /\ Len(PrefixOf(s)) \in 1..4
    /\ Len(SuffixOf(s)) \in 1..4
    /\ AllDigits(SuffixOf(s))

\* the base-10 value of a string of digits
RECURSIVE DecimalValue(_)
DecimalValue(d) ==
    IF d = <<>> THEN 0
    ELSE 10 * DecimalValue(SubSeq(d, 1, Len(d) - 1)) + DigitValue(d[Len(d)])

AllNines(d) == \A i \in DOMAIN d : d[i] = "9"

AllZeros(d) == \A i \in DOMAIN d : d[i] = "0"

AllUpper(s) == \A i \in DOMAIN s : s[i] \in UpperLetters

ValidInput == input.type = "string" /\ IsToken(input.chars)

\* the call was made on a valid token and has returned
ValidReturned == pc = "returned" /\ ValidInput

InPrefix == PrefixOf(input.chars)

InSuffix == SuffixOf(input.chars)

OutPrefix == PrefixOf(result)

OutSuffix == SuffixOf(result)

(***************************************************************************)
(* C1: stringIncrement is total: for every input value a call returns      *)
(* exactly one string, either the sentinel "Error" or a token, and never   *)
(* throws.                                                                 *)
(***************************************************************************)
C1_Total ==
    pc # "ready" =>
        /\ pc = "returned"
        /\ ~threw
        /\ (result = Error \/ IsToken(result))

\* a truthy value that is not a string went through the call
C1_Witness ==
    /\ pc = "returned"
    /\ input.type = "object"
    /\ result = Error

(***************************************************************************)
(* C2: every string that is not exactly 1 to 4 letters immediately         *)
(* followed by 1 to 4 digits yields exactly "Error"; nothing is trimmed.   *)
(***************************************************************************)
C2_MalformedStringIsError ==
    (pc # "ready" /\ input.type = "string" /\ ~IsToken(input.chars)) =>
        (pc = "returned" /\ result = Error)

\* a valid token with trailing whitespace was rejected
C2_Witness ==
    /\ pc = "returned"
    /\ input = Str(<<"a", "1", " ">>)
    /\ result = Error

(***************************************************************************)
(* C3: every input that is not a string yields the same sentinel "Error"   *)
(* as a malformed string.                                                  *)
(***************************************************************************)
C3_NonStringIsError ==
    (pc # "ready" /\ input.type # "string") =>
        (pc = "returned" /\ result = Error)

\* the number 123 was rejected
C3_Witness ==
    /\ pc = "returned"
    /\ input.type = "number"
    /\ input.val = 123
    /\ result = Error

(***************************************************************************)
(* C4: the result is "Error" if and only if the input is not a valid       *)
(* token.                                                                  *)
(***************************************************************************)
C4_ErrorIffInvalid ==
    pc # "ready" => (result = Error <=> ~ValidInput)

\* a valid token at the overflow boundary produced a result other than Error
C4_Witness ==
    /\ ValidReturned
    /\ InSuffix = <<"9", "9", "9", "9">>
    /\ result # Error

(***************************************************************************)
(* C5: for a valid token whose suffix has decimal value v, the decimal     *)
(* value of the output suffix is (v + 1) mod 10000.                        *)
(***************************************************************************)
C5_ValueIncrementedMod10000 ==
    ValidReturned =>
        DecimalValue(OutSuffix) = (DecimalValue(InSuffix) + 1) % 10000

\* a suffix with a leading zero was read in base 10
C5_Witness ==
    /\ ValidReturned
    /\ InSuffix = <<"0", "1", "9">>
    /\ DecimalValue(OutSuffix) = 20

(***************************************************************************)
(* C6: when the suffix is not all 9s, the output suffix is the incremented *)
(* value left-padded with zeros to exactly the input suffix's length.      *)
(***************************************************************************)
C6_PaddedToInputWidth ==
    (ValidReturned /\ ~AllNines(InSuffix)) =>
        /\ AllDigits(OutSuffix)
        /\ Len(OutSuffix) = Len(InSuffix)
        /\ DecimalValue(OutSuffix) = DecimalValue(InSuffix) + 1

\* 009 became 010
C6_Witness ==
    /\ ValidReturned
    /\ InSuffix = <<"0", "0", "9">>
    /\ OutSuffix = <<"0", "1", "0">>

(***************************************************************************)
(* C7: when the suffix is all 9s and 1, 2 or 3 digits long, the output     *)
(* suffix is the unpadded incremented value (10, 100 or 1000), one digit   *)
(* longer than the input suffix.                                           *)
(***************************************************************************)
C7_GrowthOnCarry ==
    (ValidReturned /\ AllNines(InSuffix) /\ Len(InSuffix) \in 1..3) =>
        /\ Len(OutSuffix) = Len(InSuffix) + 1
        /\ OutSuffix = <<"1">> \o [i \in 1..Len(InSuffix) |-> "0"]

\* 99 became 100
C7_Witness ==
    /\ ValidReturned
    /\ InSuffix = <<"9", "9">>
    /\ OutSuffix = <<"1", "0", "0">>

(***************************************************************************)
(* C8: when the incremented value needs more than 4 digits, the output     *)
(* suffix is all zeros with the input suffix's length and the prefix is    *)
(* unchanged.                                                              *)
(***************************************************************************)
C8_OverflowResetsToZeros ==
    (ValidReturned /\ DecimalValue(InSuffix) + 1 >= 10000) =>
        /\ AllZeros(OutSuffix)
        /\ Len(OutSuffix) = Len(InSuffix)
        /\ OutPrefix = InPrefix

\* aZ9999 became aZ0000
C8_Witness ==
    /\ ValidReturned
    /\ input.chars = <<"a", "Z", "9", "9", "9", "9">>
    /\ result = <<"a", "Z", "0", "0", "0", "0">>

C11_ClosedUnderIncrement ==
    /\ ValidInput
    /\ pc # "thrown"
    /\ pc = "returned" => (IsToken(result) /\ result # Error)

\* a token that only repeated application reaches (its suffix has a digit
\* no start token has) was incremented again
C11_Witness ==
    /\ pc = "returned"
    /\ input.chars = <<"a", "2", "0", "0">>
    /\ result = <<"a", "2", "0", "1">>

(***************************************************************************)
(* C12: for every valid token the output suffix is as wide as the input    *)
(* suffix or one digit wider, and never wider than 4 digits.               *)
(***************************************************************************)
C12_WidthStep ==
    ValidReturned =>
        /\ Len(OutSuffix) - Len(InSuffix) \in {0, 1}
        /\ Len(OutSuffix) <= 4

\* 999 grew to the widest suffix, 1000
C12_Witness ==
    /\ ValidReturned
    /\ InSuffix = <<"9", "9", "9">>
    /\ OutSuffix = <<"1", "0", "0", "0">>

(***************************************************************************)
(* C13: stringIncrement is deterministic and stateless: two calls with the *)
(* same input return the same output whatever calls happened in between,   *)
(* and no call changes state that a later call reads.                      *)
(***************************************************************************)
C13_DeterministicStateless ==
    /\ lastIndex = 0
    /\ \A i, j \in DOMAIN history :
          history[i].input = history[j].input =>
              history[i].outcome = history[j].outcome

\* the same valid token was incremented before and after a rejected call
C13_Witness ==
    /\ Len(history) = 3
    /\ history[1].input = Str(<<"a", "1">>)
    /\ history[2].input = Str(<<" ", "a", "1">>)
    /\ history[3].input = Str(<<"a", "1">>)
    /\ history[3].outcome = Return(<<"a", "2">>)

(***************************************************************************)
(* C14: when several callers run stringIncrement concurrently with their   *)
(* steps interleaved in any order, each caller's result equals the result  *)
(* of running its call alone.                                              *)
(***************************************************************************)
C14_InterleavingSafe ==
    \A c \in Callers :
        /\ cpc[c] # "thrown"
        /\ cpc[c] = "done" => cresult[c] = stringIncrement(cinput[c]).value

\* two callers with different tokens were both past validation, and the
\* first one finished with its own successor
C14_Witness ==
    /\ cinput[1] = Str(<<"a", "9">>)
    /\ cinput[2] = Str(<<"Z", "0", "9", "9">>)
    /\ cpc[1] = "done"
    /\ cpc[2] = "format"
    /\ cresult[1] = <<"a", "1", "0">>

(***************************************************************************)
(* C15: the clean TODAY() test passes only when the value read from cell   *)
(* A1 is a valid date equal to the current system date; it does not pass   *)
(* when getCellResult yields "No result found" or a date other than today. *)
(***************************************************************************)
C15_PassOnlyIfToday ==
    tpc = "passed" =>
        /\ cellResult.kind \in {"mdy", "long"}
        /\ cellResult.m \in 1..12
        /\ cellResult.d \in 1..DaysInMonth(cellResult.y, cellResult.m - 1)
        /\ [y |-> cellResult.y, m |-> cellResult.m - 1, d |-> cellResult.d]
             = today

(***************************************************************************)
(* C16: in the configuration a successful loadConfig returns, each of      *)
(* EXCEL_USERNAME, EXCEL_PASSWORD, HEADLESS, SLOW_MO and TEST_TIMEOUT that *)
(* is set to a non-empty value replaces the value from the file (HEADLESS  *)
(* gives true only for the text "true" in any letter case), and every      *)
(* variable that is unset leaves the file's value unchanged.               *)
(***************************************************************************)
\* the text is t, r, u, e in any letter case
IsTrueAnyCase(s) ==
    /\ Len(s) = 4
    /\ s[1] \in {"t", "T"}
    /\ s[2] \in {"r", "R"}
    /\ s[3] \in {"u", "U"}
    /\ s[4] \in {"e", "E"}

\* the number a text of digits, or starting with digits, stands for
NumberOfText(s) ==
    LET k == Cardinality({ n \in 1..Len(s) : \A i \in 1..n : IsDigit(s[i]) })
    IN  IF k = 0 THEN NaN ELSE DecimalValue(SubSeq(s, 1, k))

NonEmpty(v) == v.set /\ Len(v.text) > 0

C16_EnvOverridesFile ==
    loadOutcome.kind = "returned" =>
        LET c == loadOutcome.value
            f == file.content
        IN  /\ NonEmpty(env.EXCEL_USERNAME) => c.username = env.EXCEL_USERNAME.text
            /\ NonEmpty(env.EXCEL_PASSWORD) => c.password = env.EXCEL_PASSWORD.text
            /\ NonEmpty(env.HEADLESS) => c.headless = IsTrueAnyCase(env.HEADLESS.text)
            /\ NonEmpty(env.SLOW_MO) => c.slowMo = NumberOfText(env.SLOW_MO.text)
            /\ NonEmpty(env.TEST_TIMEOUT) => c.test = NumberOfText(env.TEST_TIMEOUT.text)
            /\ ~env.EXCEL_USERNAME.set => c.username = f.username
            /\ ~env.EXCEL_PASSWORD.set => c.password = f.password
            /\ ~env.HEADLESS.set => c.headless = f.headless
            /\ ~env.SLOW_MO.set => c.slowMo = f.slowMo
            /\ ~env.TEST_TIMEOUT.set => c.test = f.test

\* the first call returned a configuration in which an upper-case HEADLESS
\* and EXCEL_USERNAME replaced the file's values and the unset SLOW_MO left
\* the file's value
C16_Witness ==
    /\ loads = 1
    /\ loadOutcome.kind = "returned"
    /\ env.HEADLESS = SetTo(<<"T", "R", "U", "E">>)
    /\ env.EXCEL_USERNAME = SetTo(<<"e", "@", "y">>)
    /\ ~env.SLOW_MO.set
    /\ file.content.headless = FALSE
    /\ file.content.username = <<>>
    /\ loadOutcome.value.headless = TRUE
    /\ loadOutcome.value.username = <<"e", "@", "y">>
    /\ loadOutcome.value.slowMo = 100

(***************************************************************************)
(* C20: validateConfig rejects, with a "Configuration validation failed"   *)
(* error that lists "Navigation timeout must be at least 1000ms", every    *)
(* configuration whose excel.timeouts.navigation is below 1000 ms.         *)
(***************************************************************************)
C20_LowNavigationRejected ==
    (/\ loadOutcome.validated
     /\ config.hasExcel /\ config.hasTimeouts
     /\ config.navigation < 1000) =>
        /\ loadOutcome.kind = "threw"
        /\ loadOutcome.cause = "Configuration validation failed"
        /\ NavigationMessage \in Range(loadOutcome.errors)

(***************************************************************************)
(* C17: retryOperation with maxRetries >= 1 invokes the operation at least *)
(* once and at most maxRetries times, one after another, stops at the      *)
(* first invocation that succeeds and returns that invocation's result; it *)
(* never invokes the operation again after a success.                      *)
(***************************************************************************)
C17_StopsAtFirstSuccess ==
    maxRetries >= 1 =>
        /\ Len(invocations) <= maxRetries
        /\ rpc = "done" => Len(invocations) >= 1
        /\ \A i \in 1..(Len(invocations) - 1) : ~invocations[i].ok
        /\ (Len(invocations) > 0 /\ invocations[Len(invocations)].ok) =>
              /\ rpc = "done"
              /\ settled = Resolved(invocations[Len(invocations)].value)
        /\ settled.kind = "resolved" =>
              /\ Len(invocations) > 0
              /\ invocations[Len(invocations)].ok
              /\ settled.value = invocations[Len(invocations)].value

\* two failures, then the third invocation succeeded and its value came back
C17_Witness ==
    /\ maxRetries = 3
    /\ Len(invocations) = 3
    /\ ~invocations[1].ok
    /\ ~invocations[2].ok
    /\ invocations[3] = [ok |-> TRUE, value |-> "v2"]
    /\ rpc = "done"
    /\ settled = Resolved("v2")

(***************************************************************************)
(* C18: after the k-th failed attempt (1 <= k < maxRetries) the function   *)
(* sleeps baseDelay * 2^(k-1) ms before attempt k+1; when all maxRetries   *)
(* attempts fail it rejects with "Operation failed after <maxRetries>      *)
(* attempts. Last error: <message of the last failure>" after exactly      *)
(* maxRetries invocations and maxRetries - 1 sleeps.                       *)
(***************************************************************************)
RECURSIVE PowerOfTwo(_)
PowerOfTwo(k) == IF k = 0 THEN 1 ELSE 2 * PowerOfTwo(k - 1)

C18_ExponentialBackoff ==
    maxRetries >= 1 =>
        /\ \A k \in DOMAIN sleeps : sleeps[k] = baseDelay * PowerOfTwo(k - 1)
        /\ rpc = "invoke" => Len(sleeps) = Len(invocations)
        /\ rpc = "sleep" => Len(sleeps) = Len(invocations) - 1
        /\ Len(sleeps) <= maxRetries - 1
        /\ settled.kind = "rejected" =>
              /\ settled.wrapped
              /\ settled.attempts = maxRetries
              /\ settled.message = invocations[Len(invocations)].value
              /\ Len(invocations) = maxRetries
              /\ \A i \in DOMAIN invocations : ~invocations[i].ok
              /\ Len(sleeps) = maxRetries - 1

\* three failures with base delay 100: slept 100 and 200, then rejected
\* with the message of the third failure
C18_Witness ==
    /\ maxRetries = 3
    /\ baseDelay = 100
    /\ sleeps = <<100, 200>>
    /\ Len(invocations) = 3
    /\ invocations[3] = [ok |-> FALSE, value |-> "not visible"]
    /\ settled = RejectedAfter(3, ErrorWith("not visible"))

(***************************************************************************)
(* C19: handleTooManyRequestsError counts at most 10 attempts, one for     *)
(* each check that finds an error text or throws, and always returns       *)
(* normally.  The code does not satisfy this: a reload that throws after   *)
(* its check was counted is counted again by the catch block, so one check *)
(* counts twice and the counter reaches 11.                                *)
(***************************************************************************)
C19_AtMostTenCountedAttempts ==
    /\ refreshAttempts <= 10
    /\ refreshAttempts <= checks
    /\ rlpc # "rejected"

(***************************************************************************)
(* C23: the overflow branch is taken if and only if the input suffix is    *)
(* exactly 9999; an all-zero output suffix is therefore always 0000 and    *)
(* comes from 9999, and no valid token with a suffix of 1, 2 or 3 digits   *)
(* produces an all-zero suffix.                                            *)
(***************************************************************************)
Nines4 == <<"9", "9", "9", "9">>

Zeros4 == <<"0", "0", "0", "0">>

C23_OverflowOnlyAt9999 ==
    ValidReturned =>
        /\ branchOf(validFormatRegex(input.chars)) = "overflow"
              <=> InSuffix = Nines4
        /\ AllZeros(OutSuffix) => (OutSuffix = Zeros4 /\ InSuffix = Nines4)
        /\ Len(InSuffix) \in 1..3 => ~AllZeros(OutSuffix)

\* 999 took the growth branch, not the overflow branch
C23_Witness ==
    /\ ValidReturned
    /\ input.chars = <<"Z", "9", "9", "9">>
    /\ branchOf(validFormatRegex(input.chars)) = "growth"
    /\ result = <<"Z", "1", "0", "0", "0">>

(***************************************************************************)
(* C24: along every chain of applications of stringIncrement to its own    *)
(* output the suffix width never decreases from one argument to the next,  *)
(* and once it is 4 it stays 4.                                            *)
(***************************************************************************)
C24_WidthNeverDecreases ==
    [][(pc = "returned" /\ pc' = "ready") =>
          /\ Len(SuffixOf(input'.chars)) >= Len(InSuffix)
          /\ Len(InSuffix) = 4 => Len(SuffixOf(input'.chars)) = 4]_vars

\* the chain wrapped from 9999 to 0000 and the next argument is 4 wide
C24_Witness ==
    /\ pc = "ready"
    /\ input.chars = <<"a", "0", "0", "0", "0">>
    /\ sinceZero = 0

(***************************************************************************)
(* C25: a chain of applications that starts from any valid token with      *)
(* prefix P reaches P0000 and then returns to it every 10000 applications. *)
(* Every application keeps P and raises the decimal value of the suffix by *)
(* exactly one, except that 9999 is followed by 0000: a chain that starts  *)
(* at value v is therefore at P0000 after exactly 10000 - v applications.  *)
(* From P0000 the argument after k applications is P followed by the       *)
(* 4-digit text of k, for every k below 10000, so the chain visits every   *)
(* 4-digit suffix once and is back at P0000 after exactly 10000            *)
(* applications.                                                           *)
(***************************************************************************)
C25_Cycle ==
    /\ [](sinceZero >= 0 =>
            /\ sinceZero < 10000
            /\ Len(InSuffix) = 4
            /\ DecimalValue(InSuffix) = sinceZero)
    /\ [][(pc = "returned" /\ pc' = "ready") =>
            /\ PrefixOf(input'.chars) = InPrefix
            /\ IF InSuffix = Nines4
               THEN SuffixOf(input'.chars) = Zeros4
               ELSE /\ DecimalValue(InSuffix) < 9999
                    /\ DecimalValue(SuffixOf(input'.chars))
                         = DecimalValue(InSuffix) + 1]_vars

\* the 9999th application after 0000 is the one before the return to 0000
C25_Witness ==
    /\ pc = "returned"
    /\ sinceZero = 9999
    /\ input.chars = <<"Z", "9", "9", "9", "9">>
    /\ result = <<"Z", "0", "0", "0", "0">>

(***************************************************************************)
(* C26 as stated: stringIncrement is injective on valid tokens: two        *)
(* different valid tokens never produce the same output.                   *)
(***************************************************************************)
\* the tokens an input is compared with: every suffix, the shorter prefixes
ValidTokens ==
    { l \o d : l \in SeqsUpTo(LetterChars, MaxPairLetters) \ {<<>>},
               d \in SeqsUpTo(DigitChars, 4) \ {<<>>} }

SuccessorOf == [t \in ValidTokens |-> stringIncrement(Str(t)).value]

C26_Injective ==
    ValidReturned =>
        \A t \in ValidTokens : t # input.chars => SuccessorOf[t] # result

(***************************************************************************)
(* C26 as amended: two different valid tokens produce the same output      *)
(* only if they have the same prefix and one suffix is all 9s (1 to 3      *)
(* digits) while the other is that suffix with one 0 in front (9 and 09    *)
(* both give 10); in particular the function is injective on the tokens    *)
(* of any one suffix width.                                                *)
(***************************************************************************)
C26_CollisionsOnlyAcrossWidths ==
    ValidReturned =>
        \A t \in ValidTokens :
            (t # input.chars /\ SuccessorOf[t] = result) =>
                /\ PrefixOf(t) = InPrefix
                /\ \/ AllNines(SuffixOf(t)) /\ InSuffix = <<"0">> \o SuffixOf(t)
                   \/ AllNines(InSuffix) /\ SuffixOf(t) = <<"0">> \o InSuffix

\* a09 gave a10, which a9 gives as well
C26_Witness ==
    /\ ValidReturned
    /\ input.chars = <<"a", "0", "9">>
    /\ result = <<"a", "1", "0">>
    /\ SuccessorOf[<<"a", "9">>] = result

(***************************************************************************)
(* C27: the output suffix depends only on the input suffix: a valid token  *)
(* with any other prefix and the same suffix gives the same output suffix  *)
(* through the same branch (padding, growth or overflow).                  *)
(***************************************************************************)
TokenPrefixes == SeqsUpTo(LetterChars, 4) \ {<<>>}

C27_SuffixIndependentOfPrefix ==
    ValidReturned =>
        \A p \in TokenPrefixes :
            LET other == p \o InSuffix
                o == stringIncrement(Str(other))
            IN  /\ ~o.threw
                /\ SuffixOf(o.value) = OutSuffix
                /\ branchOf(validFormatRegex(other))
                     = branchOf(validFormatRegex(input.chars))

\* a01 and ZaZa01 both end in 02
C27_Witness ==
    /\ ValidReturned
    /\ input.chars = <<"a", "0", "1">>
    /\ OutSuffix = <<"0", "2">>
    /\ stringIncrement(Str(<<"Z", "a", "Z", "a", "0", "1">>)).value
         = <<"Z", "a", "Z", "a", "0", "2">>

(***************************************************************************)
(* C30: retryOperation called with maxRetries <= 0 never invokes the       *)
(* operation, never sleeps and rejects; what it rejects with is the        *)
(* unassigned lastError, not an "Operation failed after N attempts" error. *)
(***************************************************************************)
C30_NoAttemptsRejects ==
    maxRetries <= 0 =>
        /\ invocations = <<>>
        /\ sleeps = <<>>
        /\ settled.kind # "resolved"
        /\ rpc \in {"start", "done"}
        /\ rpc = "done" =>
              /\ settled.kind = "rejected"
              /\ ~settled.wrapped
              /\ ~settled.defined

\* the call with maxRetries = 0 has rejected with the unassigned lastError
C30_Witness ==
    /\ maxRetries = 0
    /\ rpc = "done"
    /\ settled = RejectedWith(NoError)
    /\ invocations = <<>>

(***************************************************************************)
(* C28: loadConfig never returns a configuration that failed               *)
(* validateConfig, also in calls made after a call that threw because      *)
(* validation failed.  The code does not satisfy this: the configuration   *)
(* is stored in the singleton before it is validated, and the next call    *)
(* returns the stored one.                                                 *)
(***************************************************************************)
C28_ReturnedPassedValidation ==
    loadOutcome.kind = "returned" => validateConfig(loadOutcome.value) = <<>>

(***************************************************************************)
(* C29: ConfigLoader is a caching singleton: getInstance never constructs  *)
(* a second object, and once a loadConfig call (made directly or through   *)
(* getExcelConfig or getBrowserConfig) has returned a configuration, the   *)
(* next call returns that same configuration and its sections, whatever    *)
(* the file and the environment variables have become in between.          *)
(***************************************************************************)
C29_CachingSingleton ==
    /\ [](objects <= 1 /\ instance \in {0, 1})
    /\ [][(loads' = loads + 1 /\ loadOutcome.kind = "returned") =>
            /\ loadOutcome'.kind = "returned"
            /\ loadOutcome'.value = loadOutcome.value
            /\ config' = config
            /\ section' # section =>
                  \/ section' = [of |-> "excel",
                                 data |-> excelOf(loadOutcome.value)]
                  \/ section' = [of |-> "browser",
                                 data |-> browserOf(loadOutcome.value)]]_vars

\* the template configuration was loaded, the file then lost its username
\* and HEADLESS was set, and getBrowserConfig still returned the template's
\* browser section
C29_Witness ==
    /\ loads = 2
    /\ loadOutcome = Returned(TemplateConfig, FALSE)
    /\ file.content.username = <<>>
    /\ env.HEADLESS = SetTo(<<"t", "r", "u", "e">>)
    /\ section = [of |-> "browser", data |-> browserOf(TemplateConfig)]
    /\ objects = 1

(***************************************************************************)
(* C22: a text N/N/YYYY that direct parsing rejects and whose day/month    *)
(* reading is today's date is reported with isValid = true.  The code does *)
(* not satisfy this: the month-first reading always gives a valid Date     *)
(* (month 22 carries over into the next year), so the day-first reading is *)
(* never tried.                                                            *)
(***************************************************************************)
C22_DayFirstAccepted ==
    (/\ tpc = "validated"
     /\ cellResult.kind = "mdy"
     /\ validation.direct = InvalidDate
     /\ cellResult.d \in 1..12
     /\ cellResult.m \in 1..DaysInMonth(cellResult.y, cellResult.d - 1)
     /\ today = [y |-> cellResult.y, m |-> cellResult.d - 1,
                 d |-> cellResult.m]) =>
        validation.isValid

(***************************************************************************)
(* C21: createNewWorkbook clicks a "Blank workbook" control only when the  *)
(* URL is not that of an Excel workbook and no existing workbook row was   *)
(* found; a run takes at most one of the three paths (already in a         *)
(* workbook, reuse an existing one, create a new one), and when none       *)
(* applies the call throws "Workbook creation failed".                     *)
(***************************************************************************)
RowClicks == { i \in DOMAIN clicks : clicks[i] = 0 }

BlankClicks == { i \in DOMAIN clicks : clicks[i] > 0 }

C21_CreateOnlyAsLastResort ==
    /\ BlankClicks # {} => (~inWorkbook(wbPage.url) /\ wbPage.rows = 0)
    /\ RowClicks # {} => ~inWorkbook(wbPage.url)
    /\ Len(clicks) <= 1
    /\ workbookName = "Existing_Workbook" => clicks = <<>>
    /\ workbookName = "Reused_Existing_Workbook" =>
          (RowClicks # {} /\ BlankClicks = {})
    /\ workbookName = "Test_Workbook" => (BlankClicks # {} /\ RowClicks = {})
    /\ wpc = "returned" => workbookName # ""
    /\ wpc = "threw" => wbThrown.message = "Workbook creation failed"
    /\ (/\ wpc \in {"returned", "threw"}
        /\ ~inWorkbook(wbPage.url)
        /\ wbPage.rows = 0
        /\ wbPage.visible = {}) =>
          /\ wpc = "threw"
          /\ wbThrown.message = "Workbook creation failed"
          /\ clicks = <<>>
          /\ workbookName = ""

\* outside a workbook and with no existing row, the first two controls were
\* not visible and the third one was clicked
C21_Witness ==
    /\ wpc = "returned"
    /\ ~inWorkbook(wbPage.url)
    /\ wbPage.rows = 0
    /\ wbPage.visible = {3}
    /\ clicks = <<3>>
    /\ workbookName = "Test_Workbook"

=============================================================================
